---- MODULE Spec2Model ----
(***************************************************************************)
(* Model of src-tauri/src/lib.rs: the Tauri host process of                *)
(* stream-haven-downloads.  It covers the setup hook (backend launcher     *)
(* thread, log plugin, managed AppState), the five commands, the           *)
(* Mutex<HashMap<String, DownloadInfo>> behind download_file, and the URL  *)
(* guard validate_url down to the characters of the URL string.            *)
(***************************************************************************)
EXTENDS Integers, Sequences, FiniteSets, TLC

(***************************************************************************)
(* Bounds of the model.                                                    *)
(***************************************************************************)
\* number of command invocations (tauri tasks) that may be in flight
MaxCalls == 2
\* the wall clock reads a millisecond in 0..MaxClock
MaxClock == 1

Calls == 1..MaxCalls
ClockMs == 0..MaxClock

(***************************************************************************)
(* Strings.  TLC strings are sequences of characters: Len, SubSeq and \o   *)
(* apply to them.                                                          *)
(***************************************************************************)
Upper == "ABCDEFGHIJKLMNOPQRSTUVWXYZ"
LowerAlpha == "abcdefghijklmnopqrstuvwxyz"
DigitChars == "0123456789"

CharAt(s, i) == SubSeq(s, i, i)

\* 0 when ch does not occur in s, else the first position of ch
RECURSIVE IndexFrom(_, _, _)
IndexFrom(s, ch, i) ==
  IF i > Len(s) THEN 0
  ELSE IF CharAt(s, i) = ch THEN i
  ELSE IndexFrom(s, ch, i + 1)

IndexOf(s, ch) == IndexFrom(s, ch, 1)

RECURSIVE LastIndexFrom(_, _, _)
LastIndexFrom(s, ch, i) ==
  IF i < 1 THEN 0
  ELSE IF CharAt(s, i) = ch THEN i
  ELSE LastIndexFrom(s, ch, i - 1)

LastIndexOf(s, ch) == LastIndexFrom(s, ch, Len(s))

Contains(s, ch) == IndexOf(s, ch) # 0

\* every character of s occurs in the string allowed
AllIn(s, allowed) == \A i \in 1..Len(s) : Contains(allowed, CharAt(s, i))

\* str::to_lowercase on ASCII text
LowerChar(ch) ==
  IF Contains(Upper, ch) THEN CharAt(LowerAlpha, IndexOf(Upper, ch)) ELSE ch

RECURSIVE to_lowercase(_)
to_lowercase(s) ==
  IF Len(s) = 0 THEN ""
  ELSE LowerChar(CharAt(s, 1)) \o to_lowercase(SubSeq(s, 2, Len(s)))

\* str::starts_with
starts_with(s, p) == Len(p) <= Len(s) /\ SubSeq(s, 1, Len(p)) = p

\* the first position from i on of a character of the string stops, else Len(s)+1
RECURSIVE FirstOf(_, _, _)
FirstOf(s, stops, i) ==
  IF i > Len(s) THEN Len(s) + 1
  ELSE IF Contains(stops, CharAt(s, i)) THEN i
  ELSE FirstOf(s, stops, i + 1)

\* the first position from i on of a character not in the string skipped
RECURSIVE SkipAll(_, _, _)
SkipAll(s, skipped, i) ==
  IF i > Len(s) THEN Len(s) + 1
  ELSE IF Contains(skipped, CharAt(s, i)) THEN SkipAll(s, skipped, i + 1)
  ELSE i

\* i64 formatted by {} : decimal digits, most significant first
RECURSIVE Decimal(_)
Decimal(n) ==
  IF n < 10 THEN CharAt(DigitChars, n + 1)
  ELSE Decimal(n \div 10) \o CharAt(DigitChars, (n % 10) + 1)

\* the value of a string of decimal digits
RECURSIVE DecValue(_)
DecValue(s) ==
  IF Len(s) = 0 THEN 0
  ELSE DecValue(SubSeq(s, 1, Len(s) - 1)) * 10 + (IndexOf(DigitChars, CharAt(s, Len(s))) - 1)

\* the pieces of s between occurrences of the character sep
RECURSIVE Split(_, _)
Split(s, sep) ==
  LET i == IndexOf(s, sep)
  IN IF i = 0 THEN <<s>>
     ELSE <<SubSeq(s, 1, i - 1)>> \o Split(SubSeq(s, i + 1, Len(s)), sep)

\* surrounding spaces removed (Url::parse strips leading and trailing C0
\* control characters and spaces)
RECURSIVE Trim(_)
Trim(s) ==
  IF Len(s) = 0 THEN s
  ELSE IF CharAt(s, 1) = " " THEN Trim(SubSeq(s, 2, Len(s)))
  ELSE IF CharAt(s, Len(s)) = " " THEN Trim(SubSeq(s, 1, Len(s) - 1))
  ELSE s

(***************************************************************************)
(* url::Url::parse and Url::host_str, as far as validate_url depends on    *)
(* them.  Modelled: the scheme (lower-cased by the parser), the authority  *)
(* of the special schemes http, https, ftp, ws and wss (slashes skipped,   *)
(* userinfo and port split off, empty or malformed host or port refused,   *)
(* domain lower-cased, IPv6 literal kept in its brackets, IPv4 written as  *)
(* four decimal octets kept as written), and URLs of other schemes, which  *)
(* parse whatever follows the colon.  Not modelled, and absent from the    *)
(* inputs: the file scheme, percent-encoding, IDNA, tabs and newlines, and *)
(* the IPv4 shorthands (hexadecimal, octal, fewer than four parts) that    *)
(* the parser rewrites to dotted decimal.                                  *)
(***************************************************************************)
SchemeChars == LowerAlpha \o Upper \o DigitChars \o "+-."
HexChars == DigitChars \o "abcdefABCDEF"
ForbiddenHostChars == " #%/:<>?@[\\]^|"
SpecialSchemes == {"http", "https", "ftp", "ws", "wss"}

ParseError == [ok |-> FALSE, scheme |-> "", has_host |-> FALSE, host |-> ""]
Parsed(scheme, has_host, host) ==
  [ok |-> TRUE, scheme |-> scheme, has_host |-> has_host, host |-> host]

LastLabel(h) == SubSeq(h, LastIndexOf(h, ".") + 1, Len(h))
EndsInNumber(h) == Len(LastLabel(h)) > 0 /\ AllIn(LastLabel(h), DigitChars)

IsOctet(s) ==
  /\ Len(s) \in 1..3
  /\ AllIn(s, DigitChars)
  /\ (Len(s) > 1 => CharAt(s, 1) # "0")
  /\ DecValue(s) <= 255

IsDottedQuad(h) ==
  LET parts == Split(h, ".")
  IN Len(parts) = 4 /\ \A i \in 1..4 : IsOctet(parts[i])

\* the host of a special scheme: [ok, val], val as Url::host_str returns it
ParseHost(h) ==
  IF Len(h) = 0 THEN [ok |-> FALSE, val |-> ""]
  ELSE IF CharAt(h, 1) = "["
  THEN IF /\ Len(h) > 2
          /\ CharAt(h, Len(h)) = "]"
          /\ AllIn(SubSeq(h, 2, Len(h) - 1), HexChars \o ":")
          /\ Contains(h, ":")
       THEN [ok |-> TRUE, val |-> to_lowercase(h)]
       ELSE [ok |-> FALSE, val |-> ""]
  ELSE IF \E i \in 1..Len(h) : Contains(ForbiddenHostChars, CharAt(h, i))
  THEN [ok |-> FALSE, val |-> ""]
  ELSE IF EndsInNumber(h) /\ ~IsDottedQuad(h)
  THEN [ok |-> FALSE, val |-> ""]
  ELSE [ok |-> TRUE, val |-> to_lowercase(h)]

IsPort(p) == AllIn(p, DigitChars) /\ Len(p) <= 5 /\ DecValue(p) <= 65535

ParseSpecial(scheme, rest) ==
  LET start == SkipAll(rest, "/\\", 1)
      stop == FirstOf(rest, "/\\?#", start)
      authority == SubSeq(rest, start, stop - 1)
      hostport == SubSeq(authority, LastIndexOf(authority, "@") + 1, Len(authority))
      pcolon == IndexFrom(hostport, ":", IndexOf(hostport, "]") + 1)
      hostraw == IF pcolon = 0 THEN hostport ELSE SubSeq(hostport, 1, pcolon - 1)
      port == IF pcolon = 0 THEN "" ELSE SubSeq(hostport, pcolon + 1, Len(hostport))
      host == ParseHost(hostraw)
  IN IF host.ok /\ IsPort(port) THEN Parsed(scheme, TRUE, host.val) ELSE ParseError

ParseNonSpecial(scheme, rest) ==
  IF starts_with(rest, "//")
  THEN LET stop == FirstOf(rest, "/?#", 3)
           authority == SubSeq(rest, 3, stop - 1)
           hostport == SubSeq(authority, LastIndexOf(authority, "@") + 1, Len(authority))
           pcolon == IndexFrom(hostport, ":", IndexOf(hostport, "]") + 1)
           hostraw == IF pcolon = 0 THEN hostport ELSE SubSeq(hostport, 1, pcolon - 1)
       IN Parsed(scheme, Len(hostraw) > 0, hostraw)
  ELSE Parsed(scheme, FALSE, "")

\* url::Url::parse(&url)
Parse(text) ==
  LET s == Trim(text)
      colon == IndexOf(s, ":")
  IN IF \/ colon < 2
        \/ ~Contains(LowerAlpha \o Upper, CharAt(s, 1))
        \/ ~AllIn(SubSeq(s, 1, colon - 1), SchemeChars)
     THEN ParseError
     ELSE LET scheme == to_lowercase(SubSeq(s, 1, colon - 1))
              rest == SubSeq(s, colon + 1, Len(s))
          IN IF scheme \in SpecialSchemes
             THEN ParseSpecial(scheme, rest)
             ELSE ParseNonSpecial(scheme, rest)

\* parsed_url.host_str().unwrap_or("")
host_str_or_empty(parsed) == IF parsed.has_host THEN parsed.host ELSE ""

(***************************************************************************)
(* Command results: Result<T, String>, T written as a string or a record.  *)
(***************************************************************************)
Ok(v) == [tag |-> "Ok", val |-> v]
Err(e) == [tag |-> "Err", val |-> e]
IsOk(r) == r.tag = "Ok"
IsErr(r) == r.tag = "Err"

ErrInvalid == "Invalid URL format"
ErrProtocol == "Only HTTP and HTTPS protocols are allowed"
ErrInternal == "Access to localhost and internal networks is not allowed"
ErrLock == "Failed to lock downloads"

(***************************************************************************)
(* validate_url                                                            *)
(***************************************************************************)
allowed_protocols == {"http", "https"}

blocked_hosts ==
  << "localhost", "127.0.0.1", "0.0.0.0", "::1",
     "10.0.0.0", "172.16.0.0", "192.168.0.0", "169.254.0.0" >>

\* variant: the loop compares for equality only, without starts_with
RECURSIVE blocked_from_exact(_, _)
blocked_from_exact(hostname, i) ==
  IF i > Len(blocked_hosts) THEN FALSE
  ELSE IF hostname = blocked_hosts[i] THEN TRUE
  ELSE blocked_from_exact(hostname, i + 1)

\* the for loop over blocked_hosts from entry i on: TRUE when it returns Err
RECURSIVE blocked_from(_, _)
blocked_from(hostname, i) ==
  IF i > Len(blocked_hosts) THEN FALSE
  ELSE IF hostname = blocked_hosts[i] \/ starts_with(hostname, blocked_hosts[i])
  THEN TRUE
  ELSE blocked_from(hostname, i + 1)

\* variant: the blocked-host loop runs before the protocol check
validate_url_host_first(text) ==
  LET parsed_url == Parse(text)
  IN IF parsed_url.ok
     THEN LET hostname == to_lowercase(host_str_or_empty(parsed_url))
          IN IF blocked_from(hostname, 1)
             THEN Err(ErrInternal)
             ELSE IF parsed_url.scheme \notin allowed_protocols
             THEN Err(ErrProtocol)
             ELSE Ok("true")
     ELSE Err(ErrInvalid)

validate_url(text) ==
  LET parsed_url == Parse(text)
  IN IF parsed_url.ok
     THEN IF parsed_url.scheme \notin allowed_protocols
          THEN Err(ErrProtocol)
          ELSE LET hostname == to_lowercase(host_str_or_empty(parsed_url))
               IN IF blocked_from(hostname, 1) THEN Err(ErrInternal) ELSE Ok("true")
     ELSE Err(ErrInvalid)


(***************************************************************************)
(* State of the host process.                                              *)
(***************************************************************************)
VARIABLES
  android,       \* cfg(target_os = "android") of the build
  debug,         \* cfg!(debug_assertions) of the build
  phase,         \* position of run(): "setup", "logging", "manage", "running", "aborted"
  backend,       \* launcher thread: "none", "pending", "spawned", "failed"
  logger,        \* TRUE once tauri_plugin_log is attached
  managed,       \* TRUE once app.manage(AppState::default()) has run
  downloads,     \* AppState.downloads: the HashMap, a function from id to DownloadInfo
  locked,        \* the Mutex is held
  poisoned,      \* the Mutex is poisoned
  pc,            \* position of each command invocation
  cmd,           \* the command each invocation runs
  url,           \* download_file / validate_url argument
  filename,      \* download_file argument
  ms,            \* chrono::Utc::now().timestamp_millis() as read by the invocation
  download_id,   \* the local download_id
  result,        \* what the invocation returned
  log,           \* lines emitted through log::info!
  input,         \* argument of a lone validate_url evaluation
  output         \* its result

bootvars == <<android, debug, phase, backend, logger, managed>>
storevars == <<downloads, locked, poisoned>>
callvars == <<pc, cmd, url, filename, ms, download_id, result>>
purevars == <<input, output>>
vars == <<android, debug, phase, backend, logger, managed, downloads, locked,
          poisoned, pc, cmd, url, filename, ms, download_id, result, log,
          input, output>>

\* arguments the frontend passes
CallUrls ==
  { "https://example.com/file", "http://localhost/x", "ftp://example.com/f",
    "not a url" }
Filenames == { "a.bin", "b.bin" }

NoResult == [tag |-> "None", val |-> ""]

\* validate_url on each argument the frontend passes
validated == [u \in CallUrls |-> validate_url(u)]

\* AppState::default(): an empty map
EmptyMap == [k \in {} |-> NoResult]

DownloadInfo(id, u, f) ==
  [id |-> id, url |-> u, filename |-> f, status |-> "pending", progress |-> 0]

\* HashMap::insert: the entry under key k is created or replaced
MapInsert(m, k, v) == [x \in DOMAIN m \cup {k} |-> IF x = k THEN v ELSE m[x]]

AppInfo ==
  [ name |-> "CARGO_PKG_NAME", version |-> "CARGO_PKG_VERSION",
    description |-> "CARGO_PKG_DESCRIPTION", authors |-> "CARGO_PKG_AUTHORS",
    homepage |-> "CARGO_PKG_HOMEPAGE" ]

StorageInfo ==
  [ used |-> 0, available |-> 1024 * 1024 * 100, total |-> 1024 * 1024 * 100,
    quota_exceeded |-> FALSE ]

\* log::info!: a line reaches the log only when a logger is attached
Logged(line) == IF logger THEN log \cup {line} ELSE log

Init ==
  /\ android \in BOOLEAN
  /\ debug \in BOOLEAN
  /\ phase = "setup"
  /\ backend = "none"
  /\ logger = FALSE
  /\ managed = FALSE
  /\ downloads = EmptyMap
  /\ locked = FALSE
  /\ poisoned = FALSE
  /\ pc = [c \in Calls |-> "idle"]
  /\ cmd = [c \in Calls |-> ""]
  /\ url = [c \in Calls |-> ""]
  /\ filename = [c \in Calls |-> ""]
  /\ ms = [c \in Calls |-> 0]
  /\ download_id = [c \in Calls |-> ""]
  /\ result = [c \in Calls |-> NoResult]
  /\ log = {}
  /\ input = ""
  /\ output = NoResult

(***************************************************************************)
(* run(): the setup hook and the run loop.                                 *)
(***************************************************************************)
\* variant: the spawn runs inside the setup hook and its failure is fatal
SpawnBackendInline ==
  /\ phase = "setup"
  /\ IF android
     THEN backend' = "none" /\ phase' = "logging"
     ELSE \E outcome \in {"spawned", "failed"} :
            /\ backend' = outcome
            /\ phase' = IF outcome = "failed" THEN "aborted" ELSE "logging"
  /\ UNCHANGED <<android, debug, logger, managed, storevars, callvars, log, purevars>>

\* std::thread::spawn of the launcher closure, skipped on android
SpawnLauncherThread ==
  /\ phase = "setup"
  /\ phase' = "logging"
  /\ backend' = IF android THEN "none" ELSE "pending"
  /\ UNCHANGED <<android, debug, logger, managed, storevars, callvars, log, purevars>>

\* the launcher thread: let _ = Command::new("node")...spawn()
LauncherRuns ==
  /\ backend = "pending"
  /\ \E outcome \in {"spawned", "failed"} : backend' = outcome
  /\ UNCHANGED <<android, debug, phase, logger, managed, storevars, callvars, log, purevars>>

\* if cfg!(debug_assertions) { app.handle().plugin(...)?; }
AttachLogger ==
  /\ phase = "logging"
  /\ IF debug
     THEN \E attached \in BOOLEAN :
            IF attached
            THEN logger' = TRUE /\ phase' = "manage"
            ELSE logger' = FALSE /\ phase' = "aborted"
     ELSE logger' = FALSE /\ phase' = "manage"
  /\ UNCHANGED <<android, debug, backend, managed, storevars, callvars, log, purevars>>

\* app.manage(AppState::default()); Ok(()) and the run loop starts
ManageState ==
  /\ phase = "manage"
  /\ managed' = TRUE
  /\ downloads' = EmptyMap
  /\ phase' = "running"
  /\ UNCHANGED <<android, debug, backend, logger, locked, poisoned, callvars, log, purevars>>

\* .run(...).expect(...): the shell fails to start before the setup hook ran
ShellFails ==
  /\ phase = "setup"
  /\ phase' = "aborted"
  /\ UNCHANGED <<android, debug, backend, logger, managed, storevars, callvars, log, purevars>>

\* the command bridge dispatches invocation c
Dispatchable(c) == phase = "running" /\ managed /\ pc[c] = "idle"

Return(c, name, r) ==
  /\ pc' = [pc EXCEPT ![c] = "done"]
  /\ cmd' = [cmd EXCEPT ![c] = name]
  /\ result' = [result EXCEPT ![c] = r]

(***************************************************************************)
(* The four commands without state.                                        *)
(***************************************************************************)
get_app_info(c) ==
  /\ Dispatchable(c)
  /\ Return(c, "get_app_info", Ok(AppInfo))
  /\ UNCHANGED <<bootvars, storevars, url, filename, ms, download_id, log, purevars>>

validate_url_command(c) ==
  /\ Dispatchable(c)
  /\ \E u \in CallUrls :
       /\ url' = [url EXCEPT ![c] = u]
       /\ Return(c, "validate_url", validated[u])
  /\ UNCHANGED <<bootvars, storevars, filename, ms, download_id, log, purevars>>

get_storage_info(c) ==
  /\ Dispatchable(c)
  /\ Return(c, "get_storage_info", Ok(StorageInfo))
  /\ UNCHANGED <<bootvars, storevars, url, filename, ms, download_id, log, purevars>>

clear_storage(c) ==
  /\ Dispatchable(c)
  /\ log' = Logged("Storage cleared")
  /\ Return(c, "clear_storage", Ok("()"))
  /\ UNCHANGED <<bootvars, storevars, url, filename, ms, download_id, purevars>>


(***************************************************************************)
(* download_file, one action per step that other invocations can observe.  *)
(***************************************************************************)
\* variant: the guard's result is discarded (let _ = validate_url(..).await;)
download_file_unguarded(c) ==
  /\ Dispatchable(c)
  /\ \E u \in CallUrls, f \in Filenames :
       /\ url' = [url EXCEPT ![c] = u]
       /\ filename' = [filename EXCEPT ![c] = f]
  /\ pc' = [pc EXCEPT ![c] = "generate"]
  /\ cmd' = [cmd EXCEPT ![c] = "download_file"]
  /\ UNCHANGED <<bootvars, storevars, ms, download_id, result, log, purevars>>

\* variant: a guard failure is replaced by one fixed message
\* (.map_err(|_| "Invalid URL format")?)
download_file_generic_error(c) ==
  /\ Dispatchable(c)
  /\ \E u \in CallUrls, f \in Filenames :
       /\ url' = [url EXCEPT ![c] = u]
       /\ filename' = [filename EXCEPT ![c] = f]
       /\ IF IsErr(validated[u])
          THEN /\ pc' = [pc EXCEPT ![c] = "done"]
               /\ result' = [result EXCEPT ![c] = Err(ErrInvalid)]
          ELSE /\ pc' = [pc EXCEPT ![c] = "generate"]
               /\ UNCHANGED result
  /\ cmd' = [cmd EXCEPT ![c] = "download_file"]
  /\ UNCHANGED <<bootvars, storevars, ms, download_id, log, purevars>>

\* the bridge dispatches download_file(url, filename, state), which runs up to
\* validate_url(url.clone()).await?; the guard is pure and the await never yields
download_file(c) ==
  /\ Dispatchable(c)
  /\ \E u \in CallUrls, f \in Filenames :
       /\ url' = [url EXCEPT ![c] = u]
       /\ filename' = [filename EXCEPT ![c] = f]
       /\ IF IsErr(validated[u])
          THEN /\ pc' = [pc EXCEPT ![c] = "done"]
               /\ result' = [result EXCEPT ![c] = validated[u]]
          ELSE /\ pc' = [pc EXCEPT ![c] = "generate"]
               /\ UNCHANGED result
  /\ cmd' = [cmd EXCEPT ![c] = "download_file"]
  /\ UNCHANGED <<bootvars, storevars, ms, download_id, log, purevars>>

\* variant: the identifier is built from whole seconds (timestamp())
format_download_id_seconds(millis) == "download_" \o Decimal(millis \div 1000)

\* format!("download_{}", millis)
format_download_id(millis) == "download_" \o Decimal(millis)

\* let download_id = format!("download_{}", chrono::Utc::now().timestamp_millis());
download_generate_id(c) ==
  /\ pc[c] = "generate"
  /\ \E now \in ClockMs :
       /\ ms' = [ms EXCEPT ![c] = now]
       /\ download_id' = [download_id EXCEPT ![c] = format_download_id(now)]
  /\ pc' = [pc EXCEPT ![c] = "lock"]
  /\ UNCHANGED <<bootvars, storevars, cmd, url, filename, result, log, purevars>>

\* variant: lock().unwrap(), which panics on a poisoned mutex
download_lock_unwrap(c) ==
  /\ pc[c] = "lock"
  /\ ~locked
  /\ IF poisoned
     THEN /\ pc' = [pc EXCEPT ![c] = "panicked"]
          /\ UNCHANGED <<locked, result>>
     ELSE /\ pc' = [pc EXCEPT ![c] = "insert"]
          /\ locked' = TRUE
          /\ UNCHANGED result
  /\ UNCHANGED <<bootvars, downloads, poisoned, cmd, url, filename, ms, download_id, log, purevars>>

\* state.downloads.lock().map_err(|_| "Failed to lock downloads")?
\* lock() waits for the mutex; on a poisoned mutex it returns Err holding the
\* guard, which map_err drops at once
download_lock(c) ==
  /\ pc[c] = "lock"
  /\ ~locked
  /\ IF poisoned
     THEN /\ pc' = [pc EXCEPT ![c] = "done"]
          /\ result' = [result EXCEPT ![c] = Err(ErrLock)]
          /\ UNCHANGED locked
     ELSE /\ pc' = [pc EXCEPT ![c] = "insert"]
          /\ locked' = TRUE
          /\ UNCHANGED result
  /\ UNCHANGED <<bootvars, downloads, poisoned, cmd, url, filename, ms, download_id, log, purevars>>

\* downloads.insert(download_id.clone(), DownloadInfo { ... });
download_insert(c) ==
  /\ pc[c] = "insert"
  /\ downloads' = MapInsert(downloads, download_id[c],
                            DownloadInfo(download_id[c], url[c], filename[c]))
  /\ pc' = [pc EXCEPT ![c] = "unlock"]
  /\ UNCHANGED <<bootvars, locked, poisoned, cmd, url, filename, ms, download_id, result, log, purevars>>

\* variant: the guard is leaked (std::mem::forget) and the mutex stays locked
download_unlock_leak(c) ==
  /\ pc[c] = "unlock"
  /\ pc' = [pc EXCEPT ![c] = "log"]
  /\ UNCHANGED <<bootvars, storevars, cmd, url, filename, ms, download_id, result, log, purevars>>

\* the closing brace of the block drops the guard
download_unlock(c) ==
  /\ pc[c] = "unlock"
  /\ locked' = FALSE
  /\ pc' = [pc EXCEPT ![c] = "log"]
  /\ UNCHANGED <<bootvars, downloads, poisoned, cmd, url, filename, ms, download_id, result, log, purevars>>

\* log::info!("Download queued: {}", download_id); Ok(download_id)
download_return(c) ==
  /\ pc[c] = "log"
  /\ log' = Logged("Download queued: " \o download_id[c])
  /\ pc' = [pc EXCEPT ![c] = "done"]
  /\ result' = [result EXCEPT ![c] = Ok(download_id[c])]
  /\ UNCHANGED <<bootvars, storevars, cmd, url, filename, ms, download_id, purevars>>

\* HashMap::insert unwinds (its documented capacity-overflow panic) while the
\* guard is held: the guard's drop marks the mutex poisoned and releases it,
\* and the invocation's task ends without a result
insert_panics(c) ==
  /\ pc[c] = "insert"
  /\ poisoned' = TRUE
  /\ locked' = FALSE
  /\ pc' = [pc EXCEPT ![c] = "panicked"]
  /\ UNCHANGED <<bootvars, downloads, cmd, url, filename, ms, download_id, result, log, purevars>>

(***************************************************************************)
(* Specifications.                                                         *)
(***************************************************************************)
Boot == SpawnLauncherThread \/ AttachLogger \/ ManageState

DownloadStep(c) ==
  \/ download_generate_id(c)
  \/ download_lock(c)
  \/ download_insert(c)
  \/ download_unlock(c)
  \/ download_return(c)

Invoke(c) ==
  \/ get_app_info(c)
  \/ validate_url_command(c)
  \/ get_storage_info(c)
  \/ clear_storage(c)
  \/ download_file(c)

Next ==
  \/ Boot
  \/ ShellFails
  \/ LauncherRuns
  \/ \E c \in Calls : Invoke(c)
  \/ \E c \in Calls : DownloadStep(c)

\* the host process
Spec == Init /\ [][Next]_vars

\* the tasks of dispatched commands and the main thread get to run; the
\* launcher thread and the frontend's decision to invoke have no such promise
FairSpec ==
  /\ Spec
  /\ WF_vars(Boot)
  /\ \A c \in Calls : WF_vars(DownloadStep(c))

NextPanic == Next \/ \E c \in Calls : insert_panics(c)

\* the host process with an insert that may unwind
SpecPanic == Init /\ [][NextPanic]_vars

(***************************************************************************)
(* validate_url alone, on a wider set of URL strings.                      *)
(***************************************************************************)
UrlPrefixes == { "http://", "https://", "HTTPS://", "http://user@", "ftp://" }
UrlHosts ==
  { "localhost", "LocalHost", "localhost.example.com", "127.0.0.1", "0.0.0.0",
    "::1", "[::1]", "10.0.0.0", "10.0.0.0.evil.example", "10.1.2.3",
    "172.16.0.0", "192.168.0.0", "192.168.0.55", "169.254.0.0",
    "example.com", "notlocalhost.com", "" }
UrlTails == { "", "/file", ":8080/x", "?q=1" }
OtherInputs ==
  { "not a url", "", "example.com/file", "://x", "1http://x", "http://a b.com/",
    "http://example.com:port/", "mailto:a@b.c", "javascript:alert(1)",
    " https://example.com/file ", "http:example.com", "foo://localhost/x" }

ValidateInputs ==
  { p \o h \o t : p \in UrlPrefixes, h \in UrlHosts, t \in UrlTails } \cup OtherInputs

InitValidate ==
  /\ Init
  /\ android = FALSE
  /\ debug = FALSE

Evaluate ==
  /\ output = NoResult
  /\ \E u \in ValidateInputs :
       /\ input' = u
       /\ output' = validate_url(u)
  /\ UNCHANGED <<bootvars, storevars, callvars, log>>

NextValidate == Evaluate

SpecValidate == InitValidate /\ [][NextValidate]_vars

(***************************************************************************)
(* Properties.                                                             *)
(***************************************************************************)
\* the arguments on which the guard succeeds
GuardPasses == { u \in CallUrls : validate_url(u) = Ok("true") }

IsDownload(c) == cmd[c] = "download_file"
Returned(c) == pc[c] = "done"
ReturnedId(c) == IsDownload(c) /\ Returned(c) /\ IsOk(result[c])

\* p is a prefix of s, character by character
HasPrefix(s, p) ==
  /\ Len(p) <= Len(s)
  /\ \A i \in 1..Len(p) : CharAt(s, i) = CharAt(p, i)

\* C1: every DownloadInfo in the map has a url on which validate_url succeeds.
C1_StoredUrlsPassedGuard ==
  \A k \in DOMAIN downloads : downloads[k].url \in GuardPasses

\* a record is stored while another download_file call was turned away
C1_Witness ==
  /\ DOMAIN downloads # {}
  /\ \E c \in Calls : IsDownload(c) /\ Returned(c) /\ IsErr(result[c])

\* C2: a download_file call whose url the guard rejects returns exactly the
\* guard's error in the step that dispatches it, and that step leaves the map
\* and the mutex as they were; the call takes no further step.
C2_RejectedUrlStep ==
  \A c \in Calls :
    /\ (pc[c] = "idle" /\ pc'[c] # "idle" /\ cmd'[c] = "download_file"
          /\ url'[c] \notin GuardPasses)
       => /\ pc'[c] = "done"
          /\ result'[c] = validated[url'[c]]
          /\ IsErr(result'[c])
          /\ UNCHANGED <<downloads, locked, poisoned>>
    /\ (Returned(c) /\ IsDownload(c) /\ IsErr(result[c]))
       => UNCHANGED <<pc[c], result[c]>>

C2_RejectedUrl == [][C2_RejectedUrlStep]_vars

\* two calls were turned away with different guard errors, the map is empty
C2_Witness ==
  /\ \E c \in Calls : IsDownload(c) /\ Returned(c) /\ result[c] = Err(ErrInternal)
  /\ \E c \in Calls : IsDownload(c) /\ Returned(c) /\ result[c] = Err(ErrProtocol)
  /\ DOMAIN downloads = {}

\* C3: the map is insert-only: a record present under an id stays present and
\* unchanged in every later state.
C3_InsertOnly ==
  [][\A k \in DOMAIN downloads :
       k \in DOMAIN downloads' /\ downloads'[k] = downloads[k]]_vars

\* C4: two download_file calls that read different milliseconds return
\* different identifiers, and once both have returned both identifiers are
\* keys of the map with status "pending" and progress 0; at most one call is
\* between lock and unlock.
C4_DistinctReadings ==
  /\ \A c1, c2 \in Calls :
       (c1 # c2 /\ ReturnedId(c1) /\ ReturnedId(c2) /\ ms[c1] # ms[c2])
       => /\ result[c1].val # result[c2].val
          /\ \A c \in {c1, c2} :
               /\ result[c].val \in DOMAIN downloads
               /\ downloads[result[c].val].id = result[c].val
               /\ downloads[result[c].val].status = "pending"
               /\ downloads[result[c].val].progress = 0
  /\ Cardinality({c \in Calls : pc[c] \in {"insert", "unlock"}}) <= 1

\* two calls with the same url read different milliseconds and both returned
C4_Witness ==
  \E c1, c2 \in Calls :
    /\ c1 # c2 /\ ReturnedId(c1) /\ ReturnedId(c2)
    /\ ms[c1] # ms[c2] /\ url[c1] = url[c2]
    /\ Cardinality(DOMAIN downloads) >= 2

\* the input is an http or https URL written with host h
HttpPrefixes == { "http://", "https://", "HTTPS://", "http://user@" }
IsHttpUrlOf(h) == \E p \in HttpPrefixes, t \in UrlTails : input = p \o h \o t

Evaluated == output # NoResult

ListedLiterals ==
  { "localhost", "127.0.0.1", "0.0.0.0", "::1",
    "10.0.0.0", "172.16.0.0", "192.168.0.0", "169.254.0.0" }

C6_OrderedChecks ==
  Evaluated =>
    LET parsed == Parse(input)
        http == parsed.scheme \in {"http", "https"}
        hostname == to_lowercase(host_str_or_empty(parsed))
        listed == \E b \in ListedLiterals : HasPrefix(hostname, b)
    IN /\ output \in {Err(ErrInvalid), Err(ErrProtocol), Err(ErrInternal), Ok("true")}
       /\ output = Err(ErrInvalid) <=> ~parsed.ok
       /\ output = Err(ErrProtocol) <=> (parsed.ok /\ ~http)
       /\ output = Err(ErrInternal) <=> (parsed.ok /\ http /\ listed)
       /\ output = Ok("true") <=> (parsed.ok /\ http /\ ~listed)
       /\ input = "ftp://localhost" => output = Err(ErrProtocol)

\* a blocked host behind a scheme that is not allowed
C6_Witness == input = "ftp://localhost" /\ output = Err(ErrProtocol)

\* what a command returns, from its arguments and clock reading alone
ExpectedResult(c) ==
  CASE cmd[c] = "get_app_info" -> Ok(AppInfo)
    [] cmd[c] = "validate_url" -> validated[url[c]]
    [] cmd[c] = "get_storage_info" -> Ok(StorageInfo)
    [] cmd[c] = "clear_storage" -> Ok("()")
    [] cmd[c] = "download_file" ->
         IF url[c] \in GuardPasses
         THEN Ok("download_" \o Decimal(ms[c]))
         ELSE validated[url[c]]

Callable(c) ==
  /\ ENABLED get_app_info(c)
  /\ ENABLED validate_url_command(c)
  /\ ENABLED get_storage_info(c)
  /\ ENABLED clear_storage(c)
  /\ ENABLED download_file(c)

C7_Running ==
  /\ phase \in {"logging", "manage", "running"} => (backend = "none" <=> android)
  /\ phase = "running" =>
       /\ managed
       /\ \A c \in Calls : pc[c] = "idle" => Callable(c)
  /\ \A c \in Calls : Returned(c) => result[c] = ExpectedResult(c)

C7_Step ==
  /\ phase = "running" => phase' = "running"
  /\ (phase' = "aborted" /\ phase # "aborted")
     => /\ backend' = backend
        /\ phase = "setup" \/ (phase = "logging" /\ debug)
  /\ backend' \in {"spawned", "failed"} /\ backend' # backend
     => UNCHANGED <<phase, logger, managed, storevars, callvars, log>>

\* C7: startup launches the backend on its own thread (not on android) and
\* goes on without it: once the logger is settled the state is managed and
\* the run loop is reached whatever the launcher does; the process then stays
\* running with all five commands callable; the only fatal paths are the
\* shell failing to start and the logger failing to attach; and every
\* command's result depends on its arguments and clock reading alone.
C7_StartupIgnoresSpawn ==
  /\ []C7_Running
  /\ [][C7_Step]_vars
  /\ (phase = "manage") ~> (phase = "running")

\* the spawn failed, the app runs and commands have returned
C7_Witness ==
  /\ phase = "running" /\ backend = "failed"
  /\ \E c \in Calls : ReturnedId(c)
  /\ \E c \in Calls : cmd[c] = "get_storage_info" /\ Returned(c)

C8_Step ==
  \A c \in Calls :
    (pc[c] = "lock" /\ poisoned /\ pc'[c] # "lock")
    => /\ pc'[c] = "done"
       /\ result'[c] = Err(ErrLock)
       /\ ~locked'
       /\ UNCHANGED <<downloads, phase, managed, poisoned>>

C8_Failed ==
  \A c \in Calls :
    (IsDownload(c) /\ Returned(c) /\ result[c] = Err(ErrLock))
    => /\ url[c] \in GuardPasses
       /\ poisoned
       /\ phase = "running"
       /\ \A d \in Calls : pc[d] = "idle" => Callable(d)

\* C8: a download_file call with a valid url that finds the mutex poisoned
\* returns Err("Failed to lock downloads") as its result, leaves the map as
\* it was and holds no lock; the process stays in its run loop and every idle
\* invocation can still be dispatched.
C8_PoisonedLock == []C8_Failed /\ [][C8_Step]_vars

\* one call unwound inside the insert, another one then failed to lock
C8_Witness ==
  /\ \E c \in Calls : IsDownload(c) /\ Returned(c) /\ result[c] = Err(ErrLock)
  /\ \E c \in Calls : pc[c] = "panicked"

C9_HeldForInsertOnly ==
  /\ Cardinality({c \in Calls : pc[c] \in {"insert", "unlock"}}) <= 1
  /\ locked <=> \E c \in Calls : pc[c] \in {"insert", "unlock"}

InFlight(c) == pc[c] \notin {"idle", "done"}

\* an invocation leaves flight only by returning a result
C9_LeavesByReturning ==
  \A c \in Calls :
    (InFlight(c) /\ ~InFlight(c)') => (pc'[c] = "done" /\ result'[c] # NoResult)

\* C9: the mutex is held by at most one download_file call, and only between
\* its lock and the end of the insert block; every dispatched invocation
\* eventually returns a result: it leaves flight only by returning, and it is
\* out of flight again and again.
C9_NoCallBlockedForever ==
  /\ []C9_HeldForInsertOnly
  /\ [][C9_LeavesByReturning]_vars
  /\ \A c \in Calls : []<>(~InFlight(c))

\* a call waits for the mutex while another one is inside its insert
C9_Witness ==
  \E c1, c2 \in Calls :
    c1 # c2 /\ locked /\ pc[c1] = "insert" /\ pc[c2] = "lock"

C10_ReturnStep ==
  \A c \in Calls :
    (pc[c] = "log" /\ pc'[c] = "done")
    => /\ result'[c].val \in DOMAIN downloads'
       /\ downloads'[result'[c].val] = DownloadInfo(result'[c].val, url[c], filename[c])

\* C10: when download_file returns identifier X, the map holds under X the
\* record with id X and the url and filename of that call; every key equals
\* its record's id.
C10_ReturnedIdOwnsRecord ==
  /\ [](\A k \in DOMAIN downloads : downloads[k].id = k)
  /\ [][C10_ReturnStep]_vars

====
